---- MODULE Spec2Model ----
(***************************************************************************)
(* A model of healthcheck/healthcheck.py: the process-wide registry        *)
(* HealthCheckMonitor, the Checker handles, and HealthCheck.run with its   *)
(* per-aggregator result cache, differential TTLs, timeout / exception     *)
(* containment, custom sections and response handlers.                     *)
(*                                                                         *)
(* Time is the value time.time() returns, counted in whole units.  The     *)
(* clock is read at the places the code reads it; between two reads it may *)
(* or may not have advanced.  The exceptions modelled are instances of     *)
(* Exception (what "except Exception" catches).                            *)
(***************************************************************************)
EXTENDS Integers, Sequences, FiniteSets, TLC

\* ------------------------------------------------------------------ bounds
\* The clock stops advancing at MaxTime.
MaxTime == 1
\* Number of Checker objects that can be created.
MaxHandles == 2
\* Longest time a probe that returns on its own takes.
MaxDur == 1

\* ------------------------------------------------------- program constants
success_status == 200
failed_status == 500

\* ------------------------------------------------------------ value sets
Handles == 1..MaxHandles
Names == {"a", "b"}
Threads == {1, 2}
Aggs == {1, 2}

\* A value json.dumps cannot serialise.
NonSerial == "<object>"

\* What one invocation of a probe function does: it returns a (passed, output)
\* pair after some time, raises, or never returns on its own.
ProbeReturns ==
    { [kind |-> "return", passed |-> TRUE, output |-> "ok"],
      [kind |-> "return", passed |-> FALSE, output |-> "bad"] }
ValueErrorBoom == [kind |-> "raise", type |-> "ValueError", msg |-> "boom"]
\* A probe is free to raise an exception that carries the timeout's text.
RuntimeErrorTimeoutText ==
    [kind |-> "raise", type |-> "RuntimeError", msg |-> "Timeout error!"]
ProbeHangs == { [kind |-> "hang"] }
Outcomes == ProbeReturns \cup {ValueErrorBoom} \cup ProbeHangs

\* The exception the timeout wrapper raises at the deadline.
TimeoutException == [kind |-> "raise", type |-> "TimeoutError", msg |-> "Timeout error!"]

\* str(e) of an exception built from one message argument.
Str(e) == e.msg

\* ------------------------------------------------------ exception adapters
\* Mutants of basic_exception_handler: it reports the probe as passed; it
\* reports the exception's type in place of its text.
basic_exception_handler_passed(checker, e) ==
    [raised |-> FALSE, passed |-> TRUE, output |-> Str(e)]
basic_exception_handler_type(checker, e) ==
    [raised |-> FALSE, passed |-> FALSE, output |-> e.type]

\* basic_exception_handler(_, e)
basic_exception_handler(checker, e) ==
    [raised |-> FALSE, passed |-> FALSE, output |-> Str(e)]

\* The exception_handler option: the default, a user adapter that reports the
\* probe as passing, a user adapter that itself raises.
ExceptionHandlers == {"basic", "lenient", "raising"}

\* Mutant of exception_handler: the option is ignored, the default is called.
exception_handler_default(kind, checker, e) == basic_exception_handler(checker, e)

exception_handler(kind, checker, e) ==
    CASE kind = "basic" -> basic_exception_handler(checker, e)
      [] kind = "lenient" -> [raised |-> FALSE, passed |-> TRUE, output |-> "handled"]
      [] OTHER -> [raised |-> TRUE, passed |-> FALSE, output |-> "adapter failed"]

\* -------------------------------------------------------- custom sections
\* An entry of HealthCheck.functions: a static value, or a zero-argument
\* provider that returns its value or raises.
SectionNames == {"version", "status"}
Static(v) == [callable |-> FALSE, raises |-> FALSE, value |-> v]
Provider(v) == [callable |-> TRUE, raises |-> FALSE, value |-> v]
RaisingProvider == [callable |-> TRUE, raises |-> TRUE, value |-> "unused"]

NoSections == [n \in {} |-> Static("unused")]
FunctionsOptions ==
    { NoSections,
      [n \in {"version"} |-> Static("1.0")],
      [n \in {"version"} |-> Provider("1.0")],
      [n \in {"version"} |-> Static(NonSerial)],
      [n \in SectionNames |-> IF n = "version" THEN RaisingProvider ELSE Static("custom")] }

\* Mutant of SectionRaised: the provider's exception goes unnoticed.
SectionNeverRaised(func) == FALSE

\* run(), the loop over self.functions: a provider is called, a static value is
\* taken as it is, and an entry whose provider raises is left out.
SectionRaised(func) == func.callable /\ func.raises
CollectSections(functions) ==
    [n \in {m \in DOMAIN functions : ~SectionRaised(functions[m])} |-> functions[n].value]

\* ------------------------------------------------------- response handlers
\* json_success_handler / json_failed_handler: the envelope, with every custom
\* section merged at the top level (data.update), then json.dumps.
JsonData(status, results, kw, at) ==
    [k \in {"hostname", "status", "timestamp", "results"} \cup DOMAIN kw |->
        IF k \in DOMAIN kw THEN [custom |-> kw[k]]
        ELSE CASE k = "hostname" -> [host |-> "localhost"]
               [] k = "status" -> [status |-> status]
               [] k = "timestamp" -> [time |-> at]
               [] OTHER -> [results |-> results]]

\* json.dumps raises TypeError on a value it cannot serialise.
Serialisable(results, kw) ==
    /\ \A n \in DOMAIN kw : kw[n] # NonSerial
    /\ ("results" \in DOMAIN kw \/ \A i \in 1..Len(results) : results[i].output # NonSerial)

json_success_handler(results, kw, at) ==
    IF Serialisable(results, kw)
    THEN [raised |-> FALSE, message |-> [json |-> JsonData("success", results, kw, at)]]
    ELSE [raised |-> TRUE, message |-> [text |-> "TypeError"]]

json_failed_handler(results, kw, at) ==
    IF Serialisable(results, kw)
    THEN [raised |-> FALSE, message |-> [json |-> JsonData("failure", results, kw, at)]]
    ELSE [raised |-> TRUE, message |-> [text |-> "TypeError"]]

\* The success_handler / failed_handler options: the JSON default, None, or a
\* user handler that raises.
Handlers == {"json", "None", "raising"}

\* ------------------------------------------------------------- reduction
\* Mutant of check_reduce: the accumulator is dropped.
check_reduce_last(passed, result) == result.passed

\* check_reduce(passed, result)
check_reduce(passed, result) == passed /\ result.passed

\* Mutant of Reduce: an empty list of results does not count as healthy.
ReduceNonEmpty(results, acc) ==
    /\ results # <<>>
    /\ \A i \in 1..Len(results) : results[i].passed

\* reduce(check_reduce, results, True)
RECURSIVE Reduce(_, _)
Reduce(results, acc) ==
    IF results = <<>> THEN acc
    ELSE Reduce(Tail(results), check_reduce(acc, Head(results)))

\* ---------------------------------------------------------- configuration
\* HealthCheck.__init__: the options of one aggregator.  The TTLs are given as
\* numbers, which float(ttl or 0) keeps (a missing TTL is the number 0).
HealthCheckInit(sh, st, fh, ft, et, eh, kwargs) ==
    [ success_handler |-> sh,
      success_ttl |-> st,
      failed_handler |-> fh,
      failed_ttl |-> ft,
      error_timeout |-> et,
      exception_handler |-> eh,
      functions |-> kwargs ]

\* The TTLs stand for the defaults 27 and 9 on the model's clock; 0 switches the
\* cache of that branch off.
SuccessTtls == {0, 2}
FailedTtls == {0, 1}
ErrorTimeouts == {0, 1}

DefaultConfig == HealthCheckInit("json", 2, "json", 1, 0, "basic", NoSections)

\* The configurations explored: the default handlers with every pair of TTLs
\* and with every exception adapter, with and without a timeout ...
TtlConfigs ==
    { HealthCheckInit("json", st, "json", ft, 0, "basic", NoSections) :
        st \in SuccessTtls, ft \in FailedTtls }
AdapterConfigs ==
    { HealthCheckInit("json", 2, "json", 1, et, eh, NoSections) :
        et \in ErrorTimeouts, eh \in ExceptionHandlers }
Configs == TtlConfigs \cup AdapterConfigs

\* ... the response handlers, each beside the default and on both branches,
\* and every set of custom sections under the default handlers, the raising
\* provider also without handlers.
HandlerPairs ==
    {<<"json", "json">>, <<"None", "None">>, <<"raising", "json">>, <<"json", "raising">>}
FormatConfigs ==
    { HealthCheckInit(hp[1], 2, hp[2], 1, 0, "basic", NoSections) : hp \in HandlerPairs }
    \cup { HealthCheckInit("json", 2, "json", 1, 0, "basic", fs) : fs \in FunctionsOptions }
    \cup { HealthCheckInit("None", 2, "None", 1, 0, "basic",
             [n \in SectionNames |-> IF n = "version" THEN RaisingProvider ELSE Static("custom")]) }

\* ---------------------------------------------------------------- objects
\* None, as a name.
None == "None"

\* The objects the registry and the cache hold: a Checker (by identity) or a
\* plain function (HealthCheckMonitor.register takes both).
CheckerObj(h) == [kind |-> "Checker", h |-> h, f |-> None]
FunctionObj(f) == [kind |-> "function", h |-> 0, f |-> f]
IsChecker(obj) == obj.kind = "Checker"

\* --------------------------------------------------------------- registry
\* HealthCheckMonitor.checkers is a dict: a sequence of (key, val) in insertion
\* order, with at most one entry per key.
HasKey(reg, key) == \E i \in 1..Len(reg) : reg[i].key = key

\* Mutant of SetItem: the registry is a list, every registration adds to it.
SetItemAppend(reg, key, val) == Append(reg, [key |-> key, val |-> val])

\* Mutant of SetItem: an existing key keeps its value (setdefault).
SetItemKeepFirst(reg, key, val) ==
    IF HasKey(reg, key) THEN reg ELSE Append(reg, [key |-> key, val |-> val])

\* cls.checkers[key] = val: an existing key keeps its place and takes the new
\* value, a new key goes last.
SetItem(reg, key, val) ==
    IF HasKey(reg, key)
    THEN [i \in 1..Len(reg) |-> IF reg[i].key = key THEN [key |-> key, val |-> val] ELSE reg[i]]
    ELSE Append(reg, [key |-> key, val |-> val])

\* HealthCheckMonitor.get(name): cls.checkers.get(name), as the list of what it
\* found (nothing for an unknown name).
Get(reg, name) ==
    SelectSeq([i \in 1..Len(reg) |-> reg[i]], LAMBDA e : e.key = name)

\* Mutant of get_checkers: the name is ignored.
get_checkers_all(reg, name) == [i \in 1..Len(reg) |-> reg[i].val]

\* Mutant of get_checkers: an unknown name falls back to every checker.
get_checkers_fallback(reg, name) ==
    IF name # None /\ HasKey(reg, name)
    THEN [i \in 1..Len(Get(reg, name)) |-> Get(reg, name)[i].val]
    ELSE [i \in 1..Len(reg) |-> reg[i].val]

\* HealthCheckMonitor.get_checkers(name)
get_checkers(reg, name) ==
    IF name # None
    THEN [i \in 1..Len(Get(reg, name)) |-> Get(reg, name)[i].val]
    ELSE [i \in 1..Len(reg) |-> reg[i].val]

\* ---------------------------------------------------- timeout containment
\* timeout(seconds, 'Timeout error!')(checker)(): the probe's own outcome when
\* it returns before the deadline, the timeout exception at the deadline
\* otherwise, whether or not the probe would ever return.
timeout(seconds, o, d) ==
    IF o.kind = "hang" \/ d >= seconds
    THEN [outcome |-> TimeoutException, elapsed |-> seconds, timedout |-> TRUE]
    ELSE [outcome |-> o, elapsed |-> d, timedout |-> FALSE]

\* Mutant of Guarded: the probe is called directly whatever error_timeout is.
GuardedNever(c, o, d) == [outcome |-> o, elapsed |-> d, timedout |-> FALSE]

\* The try block of run_check: the probe called under timeout() when
\* error_timeout > 0, directly otherwise.
Guarded(c, o, d) ==
    IF c.error_timeout > 0
    THEN timeout(c.error_timeout, o, d)
    ELSE [outcome |-> o, elapsed |-> d, timedout |-> FALSE]

\* Mutant of Expires: one TTL for both branches.
ExpiresSuccessOnly(c, passed, timestamp) == timestamp + c.success_ttl

\* expires, from the TTL of the branch
Expires(c, passed, timestamp) ==
    IF passed THEN timestamp + c.success_ttl ELSE timestamp + c.failed_ttl

\* HealthCheck.run_check(checker) under configuration c, for the object obj of
\* name `name` (a plain function has no attribute .name), when the call of the probe
\* does o and takes d, started at clock reading start.
\*   status "blocked": the probe never returns and nothing bounds it;
\*   status "raised": run_check raises (src says where);
\*   status "ok": the result dict, and the clock reading at the end.
run_check(c, obj, name, o, d, start) ==
    LET guarded == Guarded(c, o, d)
        out == guarded.outcome
        handled == IF out.kind = "raise"
                   THEN exception_handler(c.exception_handler, obj, out)
                   ELSE [raised |-> FALSE, passed |-> out.passed, output |-> out.output]
        timestamp == start + guarded.elapsed
        cause == IF guarded.timedout THEN "timeout" ELSE out.kind
    IN  IF out.kind = "hang"
        THEN [status |-> "blocked", src |-> "probe", cause |-> cause, end |-> start,
              result |-> [checker |-> None]]
        ELSE IF handled.raised
        THEN [status |-> "raised", src |-> "exception_handler", cause |-> cause,
              end |-> timestamp, result |-> [checker |-> None]]
        ELSE IF ~IsChecker(obj)
        THEN [status |-> "raised", src |-> "checker.name", cause |-> cause,
              end |-> timestamp, result |-> [checker |-> None]]
        ELSE [status |-> "ok", src |-> "none", cause |-> cause, end |-> timestamp,
              result |-> [checker |-> name,
                          output |-> handled.output,
                          passed |-> handled.passed,
                          timestamp |-> timestamp,
                          expires |-> Expires(c, handled.passed, timestamp),
                          response_time |-> guarded.elapsed]]

\* ------------------------------------------------------------------ state
VARIABLES
    now,        \* what time.time() returns
    checkers,   \* HealthCheckMonitor.checkers
    nalloc,     \* number of Checker objects created so far
    hname,      \* Checker._name of each Checker object
    wrapped,    \* the function each Checker wraps (None before decorate)
    cfg,        \* the options of each HealthCheck instance
    cache,      \* HealthCheck.cache of each instance: object -> result
    pc,         \* where each thread is in run()
    ragg,       \* the instance whose run() the thread executes
    rcheck,     \* run(): the argument `check`
    filtered,   \* run(): what is left of the iteration over `filtered`
    results,    \* run(): the local list `results`
    events,     \* history of the current run(): per probe reached, hit or call
    ret         \* what the last run() gave its caller

vars == <<now, checkers, nalloc, hname, wrapped, cfg, cache, pc, ragg, rcheck,
          filtered, results, events, ret>>

registry == <<checkers, nalloc, hname, wrapped>>
runstate == <<pc, ragg, rcheck, filtered, results, events, ret>>

NoRet == [kind |-> "none", src |-> "none", branch |-> "none", handler |-> "none",
          kw |-> NoSections, message |-> [text |-> "none"], status |-> 0,
          headers |-> "none"]

EmptyCache == [o \in {} |-> [checker |-> None]]

\* After import and construction: an empty registry, the first HealthCheck built
\* with one of the configurations, the second with the defaults, empty caches,
\* no run() in progress.
InitWith(configs) ==
    /\ now = 0
    /\ checkers = <<>>
    /\ nalloc = 0
    /\ hname = [h \in Handles |-> None]
    /\ wrapped = [h \in Handles |-> None]
    /\ cfg \in {[a \in Aggs |-> IF a = 1 THEN c ELSE DefaultConfig] : c \in configs}
    /\ cache = [a \in Aggs |-> EmptyCache]
    /\ pc = [t \in Threads |-> "idle"]
    /\ ragg = [t \in Threads |-> 1]
    /\ rcheck = [t \in Threads |-> None]
    /\ filtered = [t \in Threads |-> <<>>]
    /\ results = [t \in Threads |-> <<>>]
    /\ events = [t \in Threads |-> <<>>]
    /\ ret = [t \in Threads |-> NoRet]

Init == InitWith(Configs)

NoRun == \A t \in Threads : pc[t] = "idle"

\* ----------------------------------------------------------- registration
\* HealthCheckMonitor.register(checker) for a Checker: keyed by its name.
register(reg, h, name) == SetItem(reg, name, CheckerObj(h))

\* Mutant of DecorateEffect: the function's name is always taken.
DecorateEffectFunctionName(h, f) ==
    /\ hname' = [hname EXCEPT ![h] = f]
    /\ checkers' = register(checkers, h, f)
    /\ wrapped' = [wrapped EXCEPT ![h] = f]

\* Checker.decorate(function) on Checker h: the name defaults to the function's
\* name, the Checker is registered, the function is wrapped.
DecorateEffect(h, f) ==
    LET name == IF hname[h] = None THEN f ELSE hname[h]
    IN  /\ hname' = [hname EXCEPT ![h] = name]
        /\ checkers' = register(checkers, h, name)
        /\ wrapped' = [wrapped EXCEPT ![h] = f]

\* checker(name) with a name: Checker(name=name) is created and its decorate
\* method returned; nothing is registered yet.
CheckerNamed(n) ==
    /\ NoRun
    /\ nalloc < MaxHandles
    /\ nalloc' = nalloc + 1
    /\ hname' = [hname EXCEPT ![nalloc + 1] = n]
    /\ UNCHANGED <<now, checkers, wrapped, cfg, cache, runstate>>

\* The registrar returned by checker(name) applied to function f.
Decorate(h, f) ==
    /\ NoRun
    /\ h <= nalloc
    /\ wrapped[h] = None
    /\ DecorateEffect(h, f)
    /\ UNCHANGED <<now, nalloc, cfg, cache, runstate>>

\* checker(f) with a function, and add_check(f) with a function:
\* Checker().decorate(f).
CheckerDirect(f) ==
    /\ NoRun
    /\ nalloc < MaxHandles
    /\ nalloc' = nalloc + 1
    /\ DecorateEffect(nalloc + 1, f)
    /\ UNCHANGED <<now, cfg, cache, runstate>>

\* add_check(checker) with a Checker: HealthCheckMonitor.register(checker).
AddCheck(h) ==
    /\ NoRun
    /\ h <= nalloc
    /\ checkers' = register(checkers, h, hname[h])
    /\ UNCHANGED <<now, nalloc, hname, wrapped, cfg, cache, runstate>>

\* HealthCheckMonitor.register(f) with a plain function: keyed by f.__name__.
RegisterFunction(f) ==
    /\ NoRun
    /\ checkers' = SetItem(checkers, f, FunctionObj(f))
    /\ UNCHANGED <<now, nalloc, hname, wrapped, cfg, cache, runstate>>

\* Mutant of UnregisterAll: the reset also empties the caches.
UnregisterAllClearsCache ==
    /\ NoRun
    /\ checkers # <<>>
    /\ checkers' = <<>>
    /\ cache' = [a \in Aggs |-> EmptyCache]
    /\ UNCHANGED <<now, nalloc, hname, wrapped, cfg, runstate>>

\* HealthCheckMonitor.unregister_all()
UnregisterAll ==
    /\ NoRun
    /\ checkers # <<>>
    /\ checkers' = <<>>
    /\ UNCHANGED <<now, nalloc, hname, wrapped, cfg, cache, runstate>>

\* The clock advances.
Tick ==
    /\ now < MaxTime
    /\ now' = now + 1
    /\ UNCHANGED <<registry, cfg, cache, runstate>>

\* -------------------------------------------------------------------- run
NoOutcome == [kind |-> "none"]
NoResult == [checker |-> None]

\* Calling the object: a decorated Checker and a plain function run the probe;
\* a Checker that was never decorated has no _wrapped and raises.
NotDecorated ==
    [kind |-> "raise", type |-> "AttributeError", msg |-> "no attribute '_wrapped'"]
CallOutcome(obj, o) ==
    IF IsChecker(obj) /\ wrapped[obj.h] = None THEN NotDecorated ELSE o

NameOf(obj) == IF IsChecker(obj) THEN hname[obj.h] ELSE None

\* Mutant of CacheHit: an entry that expires now is already stale.
CacheHitStrict(c, obj, at) == obj \in DOMAIN c /\ c[obj].expires > at

\* Mutant of CacheHit: any entry is served, whatever its expiry.
CacheHitAnyEntry(c, obj, at) == obj \in DOMAIN c

\* The cache test of run(): checker in self.cache and its 'expires' >= time.time()
CacheHit(c, obj, at) == obj \in DOMAIN c /\ c[obj].expires >= at

\* Mutant of CacheOf: one cache for every instance (a class attribute).
CacheOfClass(t) == cache[1]

\* self.cache of the instance whose run() thread t executes
CacheOf(t) == cache[ragg[t]]

\* Mutant of CacheStore: an entry that exists is kept (setdefault).
CacheStoreKeepFirst(c, obj, result) == c @@ (obj :> result)

\* self.cache[checker] = result
CacheStore(c, obj, result) == (obj :> result) @@ c

\* run(check), up to the loop: results = [], filtered = get_checkers(check).
RunBegin(t, a, check) ==
    /\ pc[t] = "idle"
    /\ pc' = [pc EXCEPT ![t] = "loop"]
    /\ ragg' = [ragg EXCEPT ![t] = a]
    /\ rcheck' = [rcheck EXCEPT ![t] = check]
    /\ filtered' = [filtered EXCEPT ![t] = get_checkers(checkers, check)]
    /\ results' = [results EXCEPT ![t] = <<>>]
    /\ events' = [events EXCEPT ![t] = <<>>]
    /\ ret' = [ret EXCEPT ![t] = NoRet]
    /\ UNCHANGED <<now, registry, cfg, cache>>

\* One turn of the loop, up to the cache test: a fresh entry is appended to
\* results, otherwise run_check is entered.
RunLoop(t) ==
    /\ pc[t] = "loop"
    /\ filtered[t] # <<>>
    /\ LET obj == Head(filtered[t])
           c == CacheOf(t)
           hit == CacheHit(c, obj, now)
           ev == [obj |-> obj, kind |-> IF hit THEN "hit" ELSE "miss", at |-> now,
                  had |-> obj \in DOMAIN c,
                  entry |-> IF obj \in DOMAIN c THEN c[obj] ELSE NoResult,
                  o |-> NoOutcome, d |-> 0, cause |-> "none",
                  result |-> IF hit THEN c[obj] ELSE NoResult]
       IN  /\ events' = [events EXCEPT ![t] = Append(@, ev)]
           /\ IF hit
              THEN /\ results' = [results EXCEPT ![t] = Append(@, c[obj])]
                   /\ filtered' = [filtered EXCEPT ![t] = Tail(@)]
                   /\ pc' = pc
              ELSE /\ pc' = [pc EXCEPT ![t] = "run_check"]
                   /\ UNCHANGED <<results, filtered>>
    /\ UNCHANGED <<now, registry, cfg, cache, ragg, rcheck, ret>>

\* result = self.run_check(checker); self.cache[checker] = result;
\* results.append(result) -- for a probe call that does o and takes d.
RunCheck(t, o, d) ==
    /\ pc[t] = "run_check"
    /\ LET a == ragg[t]
           obj == Head(filtered[t])
           r == run_check(cfg[a], obj, NameOf(obj), CallOutcome(obj, o), d, now)
           n == Len(events[t])
           ev == [events[t][n] EXCEPT !.kind = "call", !.o = CallOutcome(obj, o),
                                      !.d = d, !.cause = r.cause, !.result = r.result]
       IN  /\ r.end <= MaxTime
           /\ now' = r.end
           /\ events' = [events EXCEPT ![t] = [@ EXCEPT ![n] = ev]]
           /\ CASE r.status = "ok" ->
                     /\ cache' = [cache EXCEPT ![a] = CacheStore(@, obj, r.result)]
                     /\ results' = [results EXCEPT ![t] = Append(@, r.result)]
                     /\ filtered' = [filtered EXCEPT ![t] = Tail(@)]
                     /\ pc' = [pc EXCEPT ![t] = "loop"]
                     /\ ret' = ret
                [] r.status = "raised" ->
                     /\ pc' = [pc EXCEPT ![t] = "done"]
                     /\ ret' = [ret EXCEPT ![t] = [NoRet EXCEPT !.kind = "raised", !.src = r.src]]
                     /\ UNCHANGED <<cache, results, filtered>>
                [] OTHER ->
                     /\ pc' = [pc EXCEPT ![t] = "blocked"]
                     /\ UNCHANGED <<cache, results, filtered, ret>>
    /\ UNCHANGED <<registry, cfg, ragg, rcheck>>

\* The response handler of a branch: message = 'OK' / 'NOT OK' unless a handler
\* is configured, which is then called with (results, **custom_section).
CallHandler(kind, branch, res, kw, at) ==
    CASE kind = "None" ->
           [raised |-> FALSE,
            message |-> [text |-> IF branch = "success" THEN "OK" ELSE "NOT OK"]]
      [] kind = "json" ->
           IF branch = "success" THEN json_success_handler(res, kw, at)
           ELSE json_failed_handler(res, kw, at)
      [] OTHER -> [raised |-> TRUE, message |-> [text |-> "handler failed"]]

\* run() after the loop: the custom sections, the reduction, the branch.
RunResult(c, res, at) ==
    LET custom_section == CollectSections(c.functions)
        passed == Reduce(res, TRUE)
        branch == IF passed THEN "success" ELSE "failed"
        kind == IF passed THEN c.success_handler ELSE c.failed_handler
        h == CallHandler(kind, branch, res, custom_section, at)
    IN  [kind |-> IF h.raised THEN "raised" ELSE "returned",
         src |-> IF h.raised THEN "handler" ELSE "none",
         branch |-> branch,
         handler |-> IF kind = "None" THEN "none" ELSE branch,
         kw |-> custom_section,
         message |-> h.message,
         status |-> IF h.raised THEN 0
                    ELSE IF passed THEN success_status ELSE failed_status,
         headers |-> IF h.raised THEN "none"
                     ELSE IF passed THEN "success_headers" ELSE "failed_headers"]

RunFinish(t) ==
    /\ pc[t] = "loop"
    /\ filtered[t] = <<>>
    /\ ret' = [ret EXCEPT ![t] = RunResult(cfg[ragg[t]], results[t], now)]
    /\ pc' = [pc EXCEPT ![t] = "done"]
    /\ UNCHANGED <<now, registry, cfg, cache, ragg, rcheck, filtered, results, events>>

\* The caller takes what run() gave it; the locals of the call are gone.
Return(t) ==
    /\ pc[t] = "done"
    /\ pc' = [pc EXCEPT ![t] = "idle"]
    /\ filtered' = [filtered EXCEPT ![t] = <<>>]
    /\ results' = [results EXCEPT ![t] = <<>>]
    /\ events' = [events EXCEPT ![t] = <<>>]
    /\ ret' = [ret EXCEPT ![t] = NoRet]
    /\ ragg' = [ragg EXCEPT ![t] = 1]
    /\ rcheck' = [rcheck EXCEPT ![t] = None]
    /\ UNCHANGED <<now, registry, cfg, cache>>

\* ---------------------------------------------------------- specification
Durations == 0..MaxDur
Selectors == Names \cup {None}


\* Thread t calling run() on one of the aggregators in `aggs`.
RunOn(t, aggs, outcomes, selectors) ==
    \/ \E a \in aggs, check \in selectors : RunBegin(t, a, check)
    \/ RunLoop(t)
    \/ \E o \in outcomes, d \in Durations : RunCheck(t, o, d)
    \/ RunFinish(t)
    \/ Return(t)

\* One thread calling run() on the first aggregator.
Run(outcomes, selectors) == RunOn(1, {1}, outcomes, selectors)

\* Probes registered through the decorator and run() without a selector, under
\* every TTL, timeout and exception adapter.
Next ==
    \/ \E f \in Names : CheckerDirect(f)
    \/ Tick
    \/ Run(Outcomes, {None})

Spec == Init /\ [][Next]_vars

\* The same under every response handler and set of custom sections.
InitFormat == InitWith(FormatConfigs)
SpecFormat == InitFormat /\ [][Next]_vars

\* run() with and without a selector, with and without response handlers.
SelectConfigs ==
    { HealthCheckInit(sh, 2, sh, 1, 0, "basic", NoSections) : sh \in {"json", "None"} }
InitSelect == InitWith(SelectConfigs)
NextSelect ==
    \/ \E f \in Names : CheckerDirect(f)
    \/ Tick
    \/ Run(Outcomes, Selectors)
SpecSelect == InitSelect /\ [][NextSelect]_vars

\* Probes that may raise an exception carrying the timeout's text, under every
\* exception adapter, with and without a timeout.
InitTimeout == InitWith(AdapterConfigs)
NextTimeout ==
    \/ \E f \in Names : CheckerDirect(f)
    \/ Tick
    \/ Run(Outcomes \cup {RuntimeErrorTimeoutText}, {None})
SpecTimeout == InitTimeout /\ [][NextTimeout]_vars

\* Plain functions registered beside the decorated probes, default options.
InitFunction == InitWith({DefaultConfig})
NextFunction ==
    \/ \E f \in Names : CheckerDirect(f)
    \/ \E f \in {"a"} : RegisterFunction(f)
    \/ Tick
    \/ Run(Outcomes, {None})
SpecFunction == InitFunction /\ [][NextFunction]_vars

\* The whole registration surface, with probes that return, default options.
InitRegistry == InitWith({DefaultConfig})
NextRegistry ==
    \/ \E n \in Names : CheckerNamed(n)
    \/ \E h \in Handles, f \in Names : Decorate(h, f)
    \/ \E f \in Names : CheckerDirect(f)
    \/ \E h \in Handles : AddCheck(h)
    \/ UnregisterAll
    \/ Tick
    \/ Run(ProbeReturns, Selectors)
SpecRegistry == InitRegistry /\ [][NextRegistry]_vars

\* Both forms of the decorator and the reset of the registry, default options.
NextDecorator ==
    \/ \E n \in Names : CheckerNamed(n)
    \/ \E h \in Handles, f \in Names : Decorate(h, f)
    \/ \E f \in Names : CheckerDirect(f)
    \/ UnregisterAll
    \/ Run(ProbeReturns, {None})
SpecDecorator == InitRegistry /\ [][NextDecorator]_vars

\* Two threads calling run() on the same aggregator with nothing between them,
\* probes that return, every pair of TTLs.
InitConcurrent == InitWith(TtlConfigs)
NextConcurrent ==
    \/ \E f \in {"a"} : CheckerDirect(f)
    \/ Tick
    \/ \E t \in Threads : RunOn(t, {1}, ProbeReturns, {None})
SpecConcurrent == InitConcurrent /\ [][NextConcurrent]_vars

\* A thread inside run() keeps going: each step of run() that can be taken is
\* taken in the end. The clock is read only by run(), a run() starts only
\* when the clock has room for a deadline per registered probe, with and
\* without a timeout, default adapter.
TimeoutConfigs ==
    { HealthCheckInit("json", 2, "json", 1, et, "basic", NoSections) : et \in ErrorTimeouts }
InitLive == InitWith(TimeoutConfigs)
NextLive ==
    \/ \E f \in Names : CheckerDirect(f)
    \/ NoRun /\ Tick
    \/ now + cfg[1].error_timeout * Len(checkers) <= MaxTime /\ RunBegin(1, 1, None)
    \/ RunLoop(1)
    \/ \E o \in Outcomes, d \in Durations : RunCheck(1, o, d)
    \/ RunFinish(1)
    \/ Return(1)
FairRun ==
    /\ WF_vars(RunLoop(1))
    /\ WF_vars(\E o \in Outcomes, d \in Durations : RunCheck(1, o, d))
    /\ WF_vars(RunFinish(1))
SpecLive == InitLive /\ [][NextLive]_vars /\ FairRun

\* Checkers registered, registered again and dropped by a reset of the
\* registry between the runs, probes that return, default options.
NextAddCheck ==
    \/ \E f \in Names : CheckerDirect(f)
    \/ \E h \in Handles : AddCheck(h)
    \/ UnregisterAll
    \/ Tick
    \/ Run(ProbeReturns, {None})
SpecAddCheck == InitRegistry /\ [][NextAddCheck]_vars

\* Two HealthCheck instances over the one registry, run() called on either,
\* probes that return and take their time, default options.
NextAggregators ==
    \/ \E f \in Names : CheckerDirect(f)
    \/ RunOn(1, Aggs, ProbeReturns, {None})
SpecAggregators == InitRegistry /\ [][NextAggregators]_vars

\* ================================================================ claims
\* What the thread that calls run() sees.
Done == pc[1] = "done"
\* run() reached the end of the loop and chose a branch.
Finished == Done /\ ret[1].branch # "none"
Returned == Done /\ ret[1].kind = "returned"
Conf == cfg[ragg[1]]
Res == results[1]
Ev == events[1]
AllPassed == \A i \in 1..Len(Res) : Res[i].passed

SuccessBranch ==
    /\ ret[1].branch = "success"
    /\ ret[1].handler = (IF Conf.success_handler = "None" THEN "none" ELSE "success")
    /\ Returned => /\ ret[1].status = success_status
                   /\ ret[1].headers = "success_headers"
FailedBranch ==
    /\ ret[1].branch = "failed"
    /\ ret[1].handler = (IF Conf.failed_handler = "None" THEN "none" ELSE "failed")
    /\ Returned => /\ ret[1].status = failed_status
                   /\ ret[1].headers = "failed_headers"

\* C1: when run() has collected its results, it takes the success branch (the
\* success handler is the one called, and what it returns goes out with the
\* success status and headers) exactly when every collected result passed, and
\* the failure branch exactly when at least one did not.
C1_OutcomeIsConjunction ==
    Finished => /\ AllPassed <=> SuccessBranch
                /\ ~AllPassed <=> FailedBranch

\* C1 witness: a run that returned with one passing and one failing result.
C1_Witness ==
    /\ Returned
    /\ Len(Res) = 2
    /\ Res[1].passed /\ ~Res[2].passed
    /\ ret[1].status = failed_status

\* C2: a probe reached while its cache entry has expires >= now is not called
\* and the cached entry is what goes into the results; in particular a passing
\* entry reached within success_ttl of its creation is not called again.
C2_FreshEntryIsReused ==
    \A i \in 1..Len(Ev) :
        LET e == Ev[i]
            fresh == e.had /\ e.entry.expires >= e.at
            young == e.had /\ e.entry.passed
                     /\ e.at <= e.entry.timestamp + Conf.success_ttl
        IN  (fresh \/ young) =>
                /\ e.kind = "hit"
                /\ e.o = NoOutcome
                /\ i <= Len(Res) /\ Res[i] = e.entry

\* C2 witness: a passing entry served from the cache after the clock moved on.
C2_Witness ==
    \E i \in 1..Len(Ev) :
        /\ Ev[i].kind = "hit"
        /\ Ev[i].entry.passed
        /\ Ev[i].at > Ev[i].entry.timestamp
        /\ Done

\* C3 (as claimed): with failed_ttl = 0 no run() serves a failing result from
\* the cache.
C3_FailureNeverCached ==
    Conf.failed_ttl = 0 =>
        \A i \in 1..Len(Ev) : ~(Ev[i].kind = "hit" /\ ~Ev[i].entry.passed)

\* C4: with the default exception adapter a probe that raises e gives the
\* result passed = False, output = str(e), and run() returns the failure branch.
C4_RaisingProbeFails ==
    Conf.exception_handler = "basic" =>
        \A i \in 1..Len(Ev) :
            (Ev[i].kind = "call" /\ Ev[i].cause = "raise") =>
                /\ i <= Len(Res)
                /\ Res[i] = Ev[i].result
                /\ Res[i].passed = FALSE
                /\ Res[i].output = Str(Ev[i].o)
                /\ Done => Returned /\ FailedBranch

\* C4 witness: ValueError("boom") raised by the only probe of a finished run.
C4_Witness ==
    /\ Returned
    /\ Conf.exception_handler = "basic"
    /\ Len(Ev) = 1
    /\ Ev[1].o = ValueErrorBoom
    /\ Res[1].output = "boom"

\* C5 (as claimed): run() never propagates an exception.
C5_RunNeverRaises == ret[1].kind # "raised"

\* C5 failing run: a plain function in the registry makes run() raise.
C5_Witness ==
    /\ Done
    /\ ret[1].kind = "raised"
    /\ ret[1].src = "checker.name"

\* A probe that does not return before the deadline of a configured timeout.
MissesDeadline(e) ==
    /\ e.kind = "call"
    /\ Conf.error_timeout > 0
    /\ (e.o.kind = "hang" \/ e.d >= Conf.error_timeout)

\* C6 (as amended): with a positive error_timeout and the default exception
\* adapter, a probe that does not return before the deadline gives
\* passed = False and output "Timeout error!" in place of its own result, and
\* every probe exception whose text is not "Timeout error!" gives another
\* output.
C6_TimeoutResult ==
    Conf.exception_handler = "basic" =>
        \A i \in 1..Len(Ev) :
            /\ MissesDeadline(Ev[i]) =>
                  /\ Ev[i].cause = "timeout"
                  /\ i <= Len(Res) /\ Res[i] = Ev[i].result
                  /\ Res[i].passed = FALSE
                  /\ Res[i].output = "Timeout error!"
                  /\ Res[i].response_time = Conf.error_timeout
            /\ ( /\ Ev[i].kind = "call"
                 /\ Ev[i].cause = "raise"
                 /\ Str(Ev[i].o) # "Timeout error!" ) =>
                  /\ Ev[i].result.passed = FALSE
                  /\ Ev[i].result.output # "Timeout error!"

\* C6 witness: a probe that would pass but returns too late, in a run that
\* returned, beside a probe that raised ValueError("boom").
C6_Witness ==
    /\ Returned
    /\ Conf.exception_handler = "basic"
    /\ \E i, j \in 1..Len(Ev) :
          /\ MissesDeadline(Ev[i])
          /\ Ev[i].o = [kind |-> "return", passed |-> TRUE, output |-> "ok"]
          /\ Res[i].output = "Timeout error!"
          /\ Ev[j].cause = "raise"
          /\ Res[j].output = "boom"

\* C6 (as claimed): under the default exception adapter the result of a timeout
\* differs from the result of every other probe exception.
C6_TimeoutDistinct ==
    Conf.exception_handler = "basic" =>
        \A i, j \in 1..Len(Ev) :
            ( /\ Ev[i].kind = "call" /\ Ev[i].cause = "timeout"
              /\ Ev[j].kind = "call" /\ Ev[j].cause = "raise" ) =>
                <<Ev[i].result.passed, Ev[i].result.output>>
                    # <<Ev[j].result.passed, Ev[j].result.output>>

\* expires = timestamp + the TTL of the result's branch, for aggregator a
TtlHolds(a, r) ==
    r.expires = r.timestamp + (IF r.passed THEN cfg[a].success_ttl ELSE cfg[a].failed_ttl)

\* C7: every result in an aggregator's cache and every result a run() collects
\* has expires = timestamp + success_ttl when it passed and
\* expires = timestamp + failed_ttl when it did not.
C7_ExpiresFollowsTtl ==
    /\ \A a \in Aggs : \A obj \in DOMAIN cache[a] : TtlHolds(a, cache[a][obj])
    /\ \A t \in Threads : \A i \in 1..Len(results[t]) : TtlHolds(ragg[t], results[t][i])

\* C7 witness: a passing and a failing result, created after the clock moved,
\* cached under different TTLs.
C7_Witness ==
    /\ cfg[1].success_ttl # cfg[1].failed_ttl
    /\ \E x, y \in DOMAIN cache[1] :
          /\ cache[1][x].passed /\ ~cache[1][y].passed
          /\ cache[1][x].timestamp > 0 /\ cache[1][y].timestamp > 0

\* The envelope of the default handlers says `status` and carries `res`, unless
\* a custom section of that name took the key.
Envelope(status, res) ==
    (Returned /\ ret[1].handler # "none") =>
        /\ "status" \notin DOMAIN ret[1].kw => ret[1].message.json["status"] = [status |-> status]
        /\ "results" \notin DOMAIN ret[1].kw => ret[1].message.json["results"] = [results |-> res]

\* C8: with an empty registry run() calls nothing, collects no result and takes
\* the success branch.
C8_EmptyRegistrySucceeds ==
    (pc[1] # "idle" /\ checkers = <<>>) =>
        /\ pc[1] \in {"loop", "done"}
        /\ filtered[1] = <<>> /\ Ev = <<>> /\ Res = <<>>
        /\ Done => Finished /\ SuccessBranch /\ Envelope("success", <<>>)

\* C8 witness: run() returned 200 with the default handler and no probe.
C8_Witness ==
    /\ Returned
    /\ checkers = <<>>
    /\ Conf.success_handler = "json"
    /\ ret[1].status = success_status

UnknownSelector == rcheck[1] # None /\ ~HasKey(checkers, rcheck[1])

C10_RaisingSectionOmitted ==
    Finished =>
        /\ \A n \in DOMAIN Conf.functions :
              LET func == Conf.functions[n]
                  json == Returned /\ ret[1].handler # "none"
              IN  /\ (func.callable /\ func.raises) =>
                        /\ n \notin DOMAIN ret[1].kw
                        /\ json => n \notin DOMAIN ret[1].message.json
                  /\ ~func.callable =>
                        /\ n \in DOMAIN ret[1].kw /\ ret[1].kw[n] = func.value
                        /\ json => ret[1].message.json[n] = [custom |-> func.value]
        /\ Len(Res) = Len(Ev)
        /\ AllPassed <=> ret[1].branch = "success"
        /\ ret[1].kind = "raised" =>
              /\ ret[1].src = "handler"
              /\ \/ (IF AllPassed THEN Conf.success_handler ELSE Conf.failed_handler) = "raising"
                 \/ \E n \in DOMAIN Conf.functions : Conf.functions[n].value = NonSerial

\* C10 witness: a run that returned the JSON envelope with the static section
\* in it and the raising provider's section missing.
C10_Witness ==
    /\ Returned
    /\ ret[1].handler # "none"
    /\ \E n \in DOMAIN Conf.functions : SectionRaised(Conf.functions[n])
    /\ "version" \notin DOMAIN ret[1].message.json
    /\ ret[1].message.json["status"] = [custom |-> "custom"]
    /\ Len(Res) > 0

\* checker(f): the step that creates a Checker and wraps f at once leaves the
\* Checker named after f and found under that name.
C11_DirectForm ==
    [][(nalloc' = nalloc + 1 /\ wrapped'[nalloc'] # None)
        => /\ hname'[nalloc'] = wrapped'[nalloc']
           /\ get_checkers(checkers', wrapped'[nalloc']) = <<CheckerObj(nalloc')>>]_vars

\* checker(name): the step that creates a named Checker leaves the registry as
\* it was; the step that applies its registrar to a function keeps the name and
\* leaves the Checker found under it.
C11_NamedForm ==
    [][/\ (nalloc' = nalloc + 1 /\ wrapped'[nalloc'] = None)
          => /\ checkers' = checkers
             /\ hname'[nalloc'] \in Names
       /\ \A h \in Handles :
            (h <= nalloc /\ wrapped[h] = None /\ wrapped'[h] # None)
            => /\ hname'[h] = hname[h]
               /\ get_checkers(checkers', hname[h]) = <<CheckerObj(h)>>]_vars

\* A run() without a selector that found no cache entry for any probe it
\* reached has called every registered probe once, in the registry's order, and
\* returns the success status when all of them passed.
C11_FirstRun ==
    (Finished /\ rcheck[1] = None /\ \A i \in 1..Len(Ev) : ~Ev[i].had)
    => /\ Len(Ev) = Len(checkers)
       /\ \A i \in 1..Len(Ev) : Ev[i].obj = checkers[i].val /\ Ev[i].kind = "call"
       /\ AllPassed => Returned /\ ret[1].status = success_status

\* C11: checker(f) registers the probe under f's name, checker(name)(f) under
\* the given name, and checker(name) alone registers nothing; the first run()
\* of an aggregator with an empty cache calls each registered probe exactly
\* once and returns 200 when all pass.
C11_RegistrationForms == C11_DirectForm /\ C11_NamedForm /\ []C11_FirstRun

\* C11 witness: one probe registered as checker("a")(b) and one as checker(b),
\* both called once by a run() that returned 200.
C11_Witness ==
    /\ Returned
    /\ Len(checkers) = 2
    /\ \E h \in Handles : hname[h] = "a" /\ wrapped[h] = "b" /\ checkers[1].val = CheckerObj(h)
    /\ \E h \in Handles : hname[h] = "b" /\ wrapped[h] = "b" /\ checkers[2].val = CheckerObj(h)
    /\ Len(Ev) = 2 /\ Ev[1].kind = "call" /\ Ev[2].kind = "call"
    /\ ret[1].status = success_status

\* A Checker that once was registered and no longer is a value of the registry.
Orphan(obj) == \A i \in 1..Len(checkers) : checkers[i].val # obj

\* Registering a new Checker under a name that is taken replaces the value of
\* that name and nothing else: the lookup of the name gives the new Checker
\* alone, the registry keeps its size, no cache changes.
C12_LastWins ==
    [][(nalloc' = nalloc + 1 /\ wrapped'[nalloc'] # None /\ HasKey(checkers, hname'[nalloc']))
        => /\ get_checkers(checkers', hname'[nalloc']) = <<CheckerObj(nalloc')>>
           /\ Len(checkers') = Len(checkers)
           /\ cache' = cache]_vars

\* The cache entry of a Checker that is no longer registered stays as it is.
C12_OrphanKept ==
    [][\A obj \in DOMAIN cache[1] :
          /\ obj \in DOMAIN cache'[1]
          /\ Orphan(obj) => cache'[1][obj] = cache[1][obj]]_vars

\* run() reaches only the Checker its name resolves to now, and serves from
\* the cache only that Checker's own entry: a Checker without an entry is
\* called whatever the entries of the Checkers that held its name before.
C12_RunResolvesLast ==
    \A i \in 1..Len(Ev) :
        /\ get_checkers(checkers, NameOf(Ev[i].obj)) = <<Ev[i].obj>>
        /\ Ev[i].kind = "hit" => Ev[i].had /\ Ev[i].result = cache[1][Ev[i].obj]
        /\ ~Ev[i].had => Ev[i].kind \in {"miss", "call"}

\* C12: registering h2 under the name of h1 replaces h1 (lookup and run()
\* resolve h2 only); h1's cache entry is neither removed nor used again, so
\* the next run() calls h2 even while h1's entry is within its TTL.
C12_ReRegistration == C12_LastWins /\ C12_OrphanKept /\ []C12_RunResolvesLast

\* C12 witness: run() called h2 although the entry of h1, which held the same
\* name, had not expired.
C12_Witness ==
    /\ Done
    /\ \E i \in 1..Len(Ev), h1 \in Handles :
          /\ Ev[i].kind = "call" /\ ~Ev[i].had
          /\ Ev[i].obj # CheckerObj(h1)
          /\ hname[h1] = NameOf(Ev[i].obj)
          /\ Orphan(CheckerObj(h1))
          /\ CheckerObj(h1) \in DOMAIN cache[1]
          /\ cache[1][CheckerObj(h1)].expires >= Ev[i].at
          /\ cache[1][CheckerObj(h1)].passed

\* C13: a probe reached while it has no cache entry, or an entry with
\* expires < now, is called; the result of that call is stored under the probe
\* in place of any older entry and is the one that goes into the results. An
\* entry served from the cache had expires >= now when the probe was reached.
C13_StaleEntryIsReplaced ==
    \A i \in 1..Len(Ev) :
        LET e == Ev[i]
            stale == ~e.had \/ e.entry.expires < e.at
        IN  /\ stale => e.kind \in {"miss", "call"}
            /\ (stale /\ i <= Len(Res))
               => /\ e.kind = "call"
                  /\ Res[i] = e.result
                  /\ cache[1][e.obj] = e.result
                  /\ e.result.timestamp >= e.at
                  /\ e.cause = "return" => e.result.passed = e.o.passed
            /\ e.kind = "hit" => e.had /\ e.entry.expires >= e.at /\ Res[i] = e.entry

\* C13 witness: a probe whose passing entry had expired was called again,
\* failed, and the failing result replaced the entry and went into the results.
C13_Witness ==
    /\ Returned
    /\ \E i \in 1..Len(Ev) :
          /\ Ev[i].had /\ Ev[i].entry.expires < Ev[i].at /\ Ev[i].entry.passed
          /\ Ev[i].kind = "call"
          /\ ~Res[i].passed
          /\ cache[1][Ev[i].obj] = Res[i]
          /\ cache[1][Ev[i].obj] # Ev[i].entry

\* A thread that leaves run_check with a result has stored it under the probe,
\* whatever another thread stored there in the meantime.
C14_LastWriteWins ==
    [][\A t \in Threads :
          (pc[t] = "run_check" /\ pc'[t] = "loop")
          => /\ cache'[ragg[t]][Head(filtered[t])] = results'[t][Len(results'[t])]
             /\ events'[t][Len(events'[t])].kind = "call"]_vars

\* A thread is in run_check on the strength of its own cache test alone: the
\* entry it saw was absent or expired, whatever the cache holds by now.
C14_CallFollowsOwnTest ==
    \A t \in Threads :
        pc[t] = "run_check"
        => LET e == events[t][Len(events[t])]
           IN  /\ e.kind = "miss"
               /\ ~e.had \/ e.entry.expires < e.at

\* Two calls of one probe that followed the same observation of its entry.
SameExpiry(e1, e2) ==
    /\ e1.obj = e2.obj
    /\ e1.kind = "call" /\ e2.kind = "call"
    /\ e1.had = e2.had /\ e1.entry = e2.entry

\* C14: with two threads in run() on one aggregator nothing orders the cache
\* test of one against the store of the other: each thread calls the probe on
\* its own test and each store replaces what is there, so both may call the
\* probe for the same expiry and the later store hides the earlier result.
C14_UnserialisedRun == C14_LastWriteWins /\ []C14_CallFollowsOwnTest

\* C14 witness: both threads saw the same expired entry of one probe, both
\* called it, and the cache holds the result of one call only.
C14_Witness ==
    \E i \in 1..Len(events[1]), j \in 1..Len(events[2]) :
        LET e1 == events[1][i]
            e2 == events[2][j]
        IN  /\ ragg[1] = ragg[2]
            /\ SameExpiry(e1, e2)
            /\ e1.had /\ e1.entry.expires < e1.at /\ e1.entry.expires < e2.at
            /\ i <= Len(results[1]) /\ j <= Len(results[2])
            /\ e1.result # e2.result
            /\ cache[1][e1.obj] = e2.result

\* The exception the adapter was called with for the probe of event e, and the
\* (passed, output) pair each adapter that returns gives back for it.
RaisedIn(e) == IF e.cause = "timeout" THEN TimeoutException ELSE e.o
AdapterPair(kind, e) ==
    IF kind = "lenient" THEN [passed |-> TRUE, output |-> "handled"]
    ELSE [passed |-> FALSE, output |-> RaisedIn(e).msg]
Handled(e) == e.kind = "call" /\ e.cause \in {"raise", "timeout"}

\* C15: when the call of a probe ends in an exception and the adapter returns,
\* the result's passed and output are the adapter's pair, its expiry is counted
\* from success_ttl when the adapter said passed and from failed_ttl otherwise,
\* and the branch run() takes is reduced from the adapter's passed.
C15_AdapterPairIsResult ==
    Conf.exception_handler # "raising" =>
        /\ \A i \in 1..Len(Ev) :
             Handled(Ev[i]) =>
                LET pair == AdapterPair(Conf.exception_handler, Ev[i])
                IN  /\ i <= Len(Res)
                    /\ Res[i].passed = pair.passed
                    /\ Res[i].output = pair.output
                    /\ Res[i].expires = Res[i].timestamp +
                          (IF pair.passed THEN Conf.success_ttl ELSE Conf.failed_ttl)
                    /\ cache[1][Ev[i].obj] = Res[i]
        /\ Finished =>
             LET passed(i) == IF Handled(Ev[i])
                              THEN AdapterPair(Conf.exception_handler, Ev[i]).passed
                              ELSE Res[i].passed
             IN  ret[1].branch = (IF \A i \in 1..Len(Ev) : passed(i)
                                  THEN "success" ELSE "failed")

\* C15 witness: the only probe raised, the adapter answered (True, "handled"),
\* the result is cached for success_ttl and run() returned 200.
C15_Witness ==
    /\ Returned
    /\ Conf.exception_handler = "lenient"
    /\ Conf.success_ttl # Conf.failed_ttl
    /\ Len(Ev) = 1 /\ Ev[1].cause = "raise"
    /\ Res[1].passed /\ Res[1].output = "handled"
    /\ Res[1].expires = Res[1].timestamp + Conf.success_ttl
    /\ ret[1].status = success_status

\* The call of a probe that never returns: under a positive error_timeout the
\* thread is back in the loop error_timeout later with a timeout result;
\* without one the thread is blocked in the call.
C16_HangStep ==
    [][(pc[1] = "run_check" /\ pc'[1] # "run_check"
        /\ events'[1][Len(events'[1])].o \in ProbeHangs)
        => IF Conf.error_timeout > 0
           THEN /\ pc'[1] = "loop"
                /\ now' = now + Conf.error_timeout
                /\ events'[1][Len(events'[1])].cause = "timeout"
           ELSE pc'[1] = "blocked"]_vars

\* A thread blocked in a probe stays blocked; it is blocked only without a
\* timeout, in a probe that never returns.
C16_BlockedForever == [][pc[1] = "blocked" => pc'[1] = "blocked"]_vars
C16_BlockedOnlyUnguarded ==
    pc[1] = "blocked" => /\ Conf.error_timeout = 0
                         /\ Ev[Len(Ev)].o \in ProbeHangs

\* Under a positive error_timeout a run() that started returns.
C16_Returns == (Conf.error_timeout > 0 /\ pc[1] \in {"loop", "run_check"}) ~> Returned

\* C16: with error_timeout > 0 run() returns in the end even when a probe
\* never returns, the call being given up at the deadline; with
\* error_timeout = 0 a probe that never returns blocks run() for ever.
C16_TimeoutBoundsRun ==
    /\ C16_Returns
    /\ C16_HangStep
    /\ C16_BlockedForever
    /\ []C16_BlockedOnlyUnguarded

\* C16 witness: run() returned although no probe it called ever returns.
C16_Witness ==
    /\ Returned
    /\ Conf.error_timeout > 0
    /\ Len(Ev) >= 1
    /\ \A i \in 1..Len(Ev) : Ev[i].o \in ProbeHangs /\ Ev[i].cause = "timeout"

\* A run() without a timeout blocked in a probe that never returns.
C16_BlockedWitness == pc[1] = "blocked" /\ Conf.error_timeout = 0

\* What run() resolved for its argument; the registry is not touched while a
\* run() is in progress.
Resolved == get_checkers(checkers, rcheck[1])

\* C17: within one run() every probe reached appears once in the history: it
\* is either served from the cache (no call) or called once, it puts one
\* result into the results, and at the end the results are one per resolved
\* probe, in order.
C17_EachHandleOnce ==
    /\ \A i, j \in 1..Len(Ev) : i # j => Ev[i].obj # Ev[j].obj
    /\ \A i \in 1..Len(Ev) :
          /\ Ev[i].kind \in {"hit", "miss", "call"}
          /\ Ev[i].obj = Resolved[i]
          /\ i <= Len(Res) => Res[i] = Ev[i].result /\ Ev[i].kind \in {"hit", "call"}
    /\ Len(Res) <= Len(Ev) /\ Len(Ev) <= Len(Res) + 1
    /\ Finished => Len(Res) = Len(Resolved) /\ Len(Ev) = Len(Resolved)

\* C17 witness: a run() over two probes registered again after a reset served
\* one from the cache and called the other, and returned two results.
C17_Witness ==
    /\ Returned
    /\ Len(Resolved) = 2
    /\ Len(Res) = 2
    /\ Ev[1].kind = "hit" /\ Ev[2].kind = "call"
    /\ Ev[1].obj = CheckerObj(2) /\ Ev[2].obj = CheckerObj(1)

\* The Checker registered under the name run() was called with.
IsSelected(obj) == \E k \in 1..Len(checkers) : checkers[k].key = rcheck[1] /\ checkers[k].val = obj
SelectorRegistered == pc[1] # "idle" /\ rcheck[1] # None /\ HasKey(checkers, rcheck[1])

\* run(name) reaches the Checker of that name and no other, collects its one
\* result, and takes the branch of that result.
C18_SelectedOnly ==
    SelectorRegistered =>
        /\ Len(Ev) <= 1
        /\ \A i \in 1..Len(Ev) : IsSelected(Ev[i].obj)
        /\ Finished => /\ Len(Res) = 1
                       /\ Res[1] = Ev[1].result
                       /\ ret[1].branch = (IF Res[1].passed THEN "success" ELSE "failed")
                       /\ Returned => ret[1].status =
                             (IF Res[1].passed THEN success_status ELSE failed_status)

\* During run(name) the cache entries of every other Checker stay as they are.
C18_OthersUnchanged ==
    [][SelectorRegistered
        => \A obj \in DOMAIN cache[1] :
              ~IsSelected(obj) => obj \in DOMAIN cache'[1] /\ cache'[1][obj] = cache[1][obj]]_vars

Reexecutes(t, a, obj) ==
    /\ pc[t] = "run_check" /\ pc'[t] = "loop"
    /\ ragg[t] = a
    /\ Head(filtered[t]) = obj
    /\ events'[t][Len(events'[t])].kind = "call"
    /\ cache'[a][obj] = events'[t][Len(events'[t])].result

\* No step removes a cache entry; a step that changes one is the store of a
\* run() that has just called that probe; a step that changes the registry
\* changes no cache.
C19_EntriesOnlyReplaced ==
    [][/\ \A a \in Aggs : \A obj \in DOMAIN cache[a] :
             /\ obj \in DOMAIN cache'[a]
             /\ cache'[a][obj] # cache[a][obj] => \E t \in Threads : Reexecutes(t, a, obj)
       /\ checkers' # checkers => cache' = cache]_vars

\* A probe reached while its entry has not expired is served from the cache,
\* however it came to be in the registry.
C19_FreshEntryServed ==
    \A i \in 1..Len(Ev) :
        (Ev[i].had /\ Ev[i].entry.expires >= Ev[i].at)
        => Ev[i].kind = "hit" /\ cache[1][Ev[i].obj] = Ev[i].entry

\* C19: cache entries are created and replaced, never removed: run() changes
\* only the entry of a probe it calls again, registering and unregister_all
\* change none. A Checker registered again after a reset is therefore served
\* from its entry, if that has not expired, without being called.
C19_CacheOnlyGrows == C19_EntriesOnlyReplaced /\ []C19_FreshEntryServed

\* C19 witness: the registry holds Checker 2 before Checker 1, which takes a
\* reset and registering both again; run() served both from the cache.
C19_Witness ==
    /\ Returned
    /\ Len(checkers) = 2
    /\ checkers[1].val = CheckerObj(2) /\ checkers[2].val = CheckerObj(1)
    /\ Len(Ev) = 2
    /\ Ev[1].kind = "hit" /\ Ev[2].kind = "hit"

\* A step changes the cache of an instance only when a thread in run() on
\* that instance leaves run_check.
C20_OwnCacheWritten ==
    [][\A a \in Aggs :
          cache'[a] # cache[a] => \E t \in Threads : pc[t] = "run_check" /\ ragg[t] = a]_vars

\* run() on an instance decides from that instance's cache alone and resolves
\* the whole registry, whichever instance the probes were registered through.
C20_OwnCacheRead ==
    /\ \A i \in 1..Len(Ev) :
          /\ Ev[i].had => Ev[i].obj \in DOMAIN cache[ragg[1]]
          /\ Ev[i].kind = "hit" => Ev[i].had /\ Ev[i].result = cache[ragg[1]][Ev[i].obj]
          /\ ~Ev[i].had => Ev[i].kind \in {"miss", "call"}
          /\ Ev[i].obj = checkers[i].val
    /\ Finished => Len(Ev) = Len(checkers)

\* C20: the registry is one for the process, the cache one per instance:
\* run() on an instance reads and writes that instance's cache only, so a
\* probe with an unexpired entry in A's cache is still called by B's first
\* run(), and every instance runs every registered probe.
C20_CachePerInstance == C20_OwnCacheWritten /\ []C20_OwnCacheRead

\* C20 witness: run() on the second instance called a probe whose entry in the
\* first instance's cache had not expired, and that entry is as it was.
C20_Witness ==
    /\ Returned
    /\ ragg[1] = 2
    /\ Len(Ev) = 2
    /\ \A i \in 1..2 :
          /\ Ev[i].kind = "call" /\ ~Ev[i].had
          /\ Ev[i].obj \in DOMAIN cache[1]
          /\ cache[1][Ev[i].obj].expires >= Ev[i].at
          /\ cache[1][Ev[i].obj] # cache[2][Ev[i].obj]

====
